---- MODULE Spec2Model ----
(***************************************************************************)
(* A model of song_downloader.py: the prompt loop (main), the primary      *)
(* backend supervisor with its rate-limit fallback                         *)
(* (download_from_spotify_url, extract_spotify_track_name), the secondary  *)
(* pipeline (download_song_with_metadata) and the direct search download   *)
(* (download_song).  The external backends, the clock and the network are  *)
(* the environment: they emit lines, exit, hang, answer or fail.           *)
(***************************************************************************)
EXTENDS Integers, Sequences, FiniteSets, TLC

VARIABLES
    pc,               \* position of the single control thread
    input,            \* the stripped line read by main ("" before any)
    request,          \* "none" | "url" | "text": the classified input of main
    clock,            \* ticks of time.time() since start_time
    procSt,           \* primary process: "none" | "running" | "hung" | "dying" | "exited"
    procCode,         \* exit status of the primary process (Option)
    emitted,          \* every line the primary backend wrote, in order
    nread,            \* how many of them readline() has returned
    output_lines,     \* the supervisor's output_lines
    rate_limited,     \* the supervisor's rate_limited flag
    timedOut,         \* the timeout branch (lines 130-133) was taken
    returncode,       \* the supervisor's returncode (Option)
    track_name,       \* result of extract_spotify_track_name (Option)
    query,            \* query given to download_song_with_metadata (Option)
    secSt,            \* secondary (yt-dlp) process: "none" | "running" | "hung" | "exited"
    secCode,          \* its exit status (Option)
    secKind,          \* "none" | "md" | "audio" | "ds": which yt-dlp call it is
    secOut,           \* stdout payload of the metadata-only call
    metadata,         \* the metadata dict being built (Option)
    best,             \* the local best of line 295 (Option)
    result,           \* value returned to main for this request
    audioFile,        \* an audio file was written for this request
    coverFile,        \* a cover file was written for this request
    primaryStarts,    \* primary processes spawned for this request
    secondaryEntries, \* entries into download_song_with_metadata for this request
    secStarts         \* secondary processes spawned for this request

vars == <<pc, input, request, clock, procSt, procCode, emitted, nread, output_lines,
          rate_limited, timedOut, returncode, track_name, query, secSt, secCode,
          secKind, secOut, metadata, best, result, audioFile, coverFile,
          primaryStarts, secondaryEntries, secStarts>>

----------------------------------------------------------------------------
(* Bounds of the model *)

\* the timeout parameter of download_from_spotify_url, in clock ticks
timeout == 2
\* the clock stops advancing this many ticks after the timeout
ClockSlack == 2
\* lines a primary backend run may emit
MaxLines == 2
\* thumbnail candidates a metadata record may list
MaxThumbs == 2
\* characters of a title
MaxNameLen == 2

MaxClock == timeout + ClockSlack

----------------------------------------------------------------------------
(* Python values *)

None == [some |-> FALSE]
Some(x) == [some |-> TRUE, v |-> x]

\* Python truthiness of an optional string (a sequence of tokens)
Truthy(o) == o.some /\ o.v # <<>>

ResUnset == [kind |-> "unset"]
ResTrue == [kind |-> "bool", val |-> TRUE]
ResFalse == [kind |-> "bool", val |-> FALSE]
ResNone == [kind |-> "None"]
ResMetadata(md) == [kind |-> "metadata", md |-> md]

\* truthiness of a returned value: True, or a non-empty dict
ResTruthy(r) == r = ResTrue \/ r.kind = "metadata"

----------------------------------------------------------------------------
(* Output lines of the primary backend.  A line is a sequence of tokens;   *)
(* " " is whitespace, the other tokens are words.                          *)

L_ok == <<"ok">>
L_blank == <<>>
L_rate == <<"rate", " ", "ok">>
L_rl == <<" ", "Rate", " ", "limit", " ">>
L_gen == <<"generated", " ", "LIMIT">>
Lines == {L_ok, L_blank, L_rate, L_rl, L_gen}

\* str.lower() on a token
Lower(t) ==
    CASE t = "Rate" -> "rate"
      [] t = "LIMIT" -> "limit"
      [] OTHER -> t

\* the words among "rate", "limit" that occur as substrings of a token
SubWords(t) ==
    CASE t = "rate" -> {"rate"}
      [] t = "generated" -> {"rate"}
      [] t = "limit" -> {"limit"}
      [] OTHER -> {}

\* word in line.lower()
ContainsLower(w, line) == \E i \in 1..Len(line) : w \in SubWords(Lower(line[i]))

RECURSIVE LStrip(_)
LStrip(s) == IF s # <<>> /\ Head(s) = " " THEN LStrip(Tail(s)) ELSE s

RECURSIVE RStrip(_)
RStrip(s) ==
    IF s # <<>> /\ s[Len(s)] = " " THEN RStrip(SubSeq(s, 1, Len(s) - 1)) ELSE s

\* str.strip()
Strip(s) == RStrip(LStrip(s))

IsRateLimit_caseSensitive(line) ==
    (\E i \in 1..Len(line) : "rate" \in SubWords(line[i]))
    /\ (\E i \in 1..Len(line) : "limit" \in SubWords(line[i]))

\* line 144: "rate" in line.lower() and "limit" in line.lower()
IsRateLimit(line) == ContainsLower("rate", line) /\ ContainsLower("limit", line)

----------------------------------------------------------------------------
(* Exit statuses *)

ExitCodes == {0, 1}
\* Popen.returncode of a process ended by SIGKILL
KilledCode == 0 - 9

IsAlive(st) == st \in {"running", "hung", "dying"}

\* Popen.kill(): SIGKILL to a live process, nothing for one that has exited
Kill(st) == IF st \in {"running", "hung"} THEN "dying" ELSE st

----------------------------------------------------------------------------
(* The prompt loop's inputs *)

Inputs == {"quit", "", "Song Name", "https://open.spotify.com/track/1"}

\* line 359: query.lower() in ['quit', 'exit', 'q']
IsQuit(s) == s \in {"quit", "exit", "q"}

\* line 366: "spotify.com" in query
HasSpotifyDomain(s) == s = "https://open.spotify.com/track/1"

----------------------------------------------------------------------------
(* The page-title scrape.  A page holds up to three title-bearing tags;    *)
(* the token " | Spotify" is the branding suffix.                          *)

Brand == " | Spotify"

Pages ==
    [og : {None, Some(<<"Song">>)},
     tw : {None, Some(<<"Tw">>)},
     title : {None, Some(<<"Song", Brand>>), Some(<<" ", Brand>>)}]

\* urlopen() raised (None) or returned a page
Fetches == {None} \cup {Some(p) : p \in Pages}

\* title.replace(' | Spotify', '')
RemoveBrand(s) == SelectSeq(s, LAMBDA t : t # Brand)

\* extract_spotify_track_name: the first probe that matches
ExtractTitle(f) ==
    IF ~f.some THEN None
    ELSE IF f.v.og.some THEN f.v.og
    ELSE IF f.v.tw.some THEN f.v.tw
    ELSE IF f.v.title.some THEN Some(Strip(RemoveBrand(f.v.title.v)))
    ELSE None

FallbackQuery_url(tn) == Some(<<"https://open.spotify.com/track/1">>)

\* line 159: the query handed to download_song_with_metadata
FallbackQuery(tn) == tn

----------------------------------------------------------------------------
(* stdout of the metadata-only call.  Text fields are sequences of         *)
(* characters; a key that is absent from the JSON object is None.          *)

\* dict.get(key, default)
Get(o, d) == IF o.some THEN o.v ELSE d

Unknown == <<"Unknown">>

Dims == {None, Some(1), Some(2)}
Candidates ==
    [url : {None, Some("http://a"), Some("http://b")}, width : Dims, height : Dims]
ThumbLists == UNION {[1..n -> Candidates] : n \in 0..MaxThumbs}

NameChars == {"a", " ", "_", "<", ">", ":", "\"", "/", "\\", "|", "?", "*"}
Names == UNION {[1..n -> NameChars] : n \in 0..MaxNameLen}

\* the payloads of the metadata-only call in a request of the prompt loop
Payloads ==
    [json : {"object"}, has_url : BOOLEAN, thumbnail : {"", "http://t"},
     thumbnails : {<<>>}, title : {Some(<<"a">>)}, artist : {Some(<<"b">>)},
     uploader : {None}]
    \cup [json : {"invalid", "nonobject"}, has_url : {FALSE}, thumbnail : {""},
          thumbnails : {<<>>}, title : {None}, artist : {None}, uploader : {None}]

\* records that differ in their thumbnail candidates
ThumbPayloads ==
    [json : {"object"}, has_url : {TRUE}, thumbnail : {"", "http://t"},
     thumbnails : ThumbLists, title : {Some(<<"a">>)}, artist : {Some(<<"b">>)},
     uploader : {None}]

\* records that differ in their title, artist and uploader
NamePayloads ==
    [json : {"object"}, has_url : {TRUE}, thumbnail : {""}, thumbnails : {<<>>},
     title : {None} \cup {Some(n) : n \in Names},
     artist : {None, Some(<<>>), Some(<<"A", "/", "D">>)},
     uploader : {None, Some(<<"u", "?">>)}]

\* the payloads of the metadata-only call when the function is called by itself
RichPayloads == Payloads \cup ThumbPayloads \cup NamePayloads

NoPayload ==
    [json |-> "invalid", has_url |-> FALSE, thumbnail |-> "", thumbnails |-> <<>>,
     title |-> None, artist |-> None, uploader |-> None]

Parseable_noUrlCheck(p) == p.json = "object"

\* lines 280-308 run without raising: json.loads gives a dict that has webpage_url
Parseable(p) == p.json = "object" /\ p.has_url

\* line 295: the key of max, x.get("height", 0) * x.get("width", 0)
Area(c) == Get(c.height, 0) * Get(c.width, 0)

\* max(seq, key=...): the scan keeps the element seen first among equal keys
RECURSIVE MaxScan(_, _, _)
MaxScan(s, i, b) ==
    IF i > Len(s) THEN b
    ELSE MaxScan(s, i + 1, IF Area(s[i]) > Area(s[b]) THEN i ELSE b)

RECURSIVE MaxScanLast(_, _, _)
MaxScanLast(s, i, b) ==
    IF i > Len(s) THEN b
    ELSE MaxScanLast(s, i + 1, IF Area(s[i]) >= Area(s[b]) THEN i ELSE b)

Best_lastOfEqual(s) == s[MaxScanLast(s, 2, 1)]

\* line 295: best = max(metadata["thumbnails"], key=...)
Best(s) == s[MaxScan(s, 2, 1)]

\* lines 288, 293-296: thumbnail_url
ThumbnailUrl(p) ==
    IF p.thumbnails # <<>> THEN Get(Best(p.thumbnails).url, p.thumbnail)
    ELSE p.thumbnail

\* lines 282-296: the metadata dict before the downloads
BuildMetadata(p) ==
    [title |-> Get(p.title, Unknown),
     artist |-> IF Truthy(p.artist) THEN p.artist.v ELSE Get(p.uploader, Unknown),
     thumbnail_url |-> ThumbnailUrl(p),
     thumbnails |-> p.thumbnails,
     file_path |-> <<>>,
     cover_path |-> <<>>]

\* the characters of the class [<>:"/\\|?*]
Illegal == {"<", ">", ":", "\"", "/", "\\", "|", "?", "*"}

Sanitize_firstOnly(s) ==
    [i \in 1..Len(s) |->
        IF s[i] \in Illegal /\ (\A j \in 1..(i - 1) : s[j] \notin Illegal)
        THEN "_" ELSE s[i]]

\* line 303: re.sub(r'[<>:"/\\|?*]', '_', ...)
Sanitize(s) == [i \in 1..Len(s) |-> IF s[i] \in Illegal THEN "_" ELSE s[i]]

\* line 303: safe_filename
SafeFilename(md) == Sanitize(md.artist \o <<" ", "-", " ">> \o md.title)

\* line 304: os.path.join(output_dir, f"{safe_filename}.mp3")
OutputPath(md) == <<"downloads", "/">> \o SafeFilename(md) \o <<".mp3">>
\* line 314: output_path.replace(".mp3", ".%(ext)s"), the --output of the audio call
OutputTemplate(md) == <<"downloads", "/">> \o SafeFilename(md) \o <<".%(ext)s">>
\* line 63: the --output of download_song, filled in by the backend itself
DsTemplate == <<"downloads", "/", "%(artist)s - %(title)s", ".%(ext)s">>
\* line 305: os.path.join(output_dir, f"{safe_filename}.jpg")
CoverPath(md) == <<"downloads", "/">> \o SafeFilename(md) \o <<".jpg">>

----------------------------------------------------------------------------
(* Initial state and the per-request reset *)

FreshRequest ==
    /\ clock = 0
    /\ procSt = "none"
    /\ procCode = None
    /\ emitted = <<>>
    /\ nread = 0
    /\ output_lines = <<>>
    /\ rate_limited = FALSE
    /\ timedOut = FALSE
    /\ returncode = None
    /\ track_name = None
    /\ query = None
    /\ secSt = "none"
    /\ secCode = None
    /\ secKind = "none"
    /\ secOut = NoPayload
    /\ metadata = None
    /\ best = None
    /\ result = ResUnset
    /\ audioFile = FALSE
    /\ coverFile = FALSE
    /\ primaryStarts = 0
    /\ secondaryEntries = 0
    /\ secStarts = 0

\* the same, for the next request
ResetRequest ==
    /\ clock' = 0
    /\ procSt' = "none"
    /\ procCode' = None
    /\ emitted' = <<>>
    /\ nread' = 0
    /\ output_lines' = <<>>
    /\ rate_limited' = FALSE
    /\ timedOut' = FALSE
    /\ returncode' = None
    /\ track_name' = None
    /\ query' = None
    /\ secSt' = "none"
    /\ secCode' = None
    /\ secKind' = "none"
    /\ secOut' = NoPayload
    /\ metadata' = None
    /\ best' = None
    /\ result' = ResUnset
    /\ audioFile' = FALSE
    /\ coverFile' = FALSE
    /\ primaryStarts' = 0
    /\ secondaryEntries' = 0
    /\ secStarts' = 0

Init ==
    /\ pc = "prompt"
    /\ input = ""
    /\ request = "none"
    /\ FreshRequest

primaryVars == <<procSt, procCode, emitted, nread, output_lines, rate_limited,
                 timedOut, returncode, primaryStarts>>
secVars == <<secSt, secCode, secKind, secOut, secStarts>>
fallbackVars == <<track_name, query, metadata, best, secondaryEntries, coverFile>>

\* a function returns r to main
Return(r) == pc' = "done" /\ result' = r

----------------------------------------------------------------------------
(* main, lines 356-371 *)

\* input() gives a line; quit ends the loop, an empty line asks again,
\* anything else is classified and handled
MainInput ==
    /\ pc = "prompt"
    /\ \E s \in Inputs :
        /\ input' = s
        /\ IF IsQuit(s) THEN pc' = "exit" /\ request' = "none"
           ELSE IF s = "" THEN pc' = "prompt" /\ request' = "none"
           ELSE IF HasSpotifyDomain(s) THEN pc' = "spawn" /\ request' = "url"
           ELSE pc' = "ds_spawn" /\ request' = "text"
    /\ UNCHANGED <<clock, primaryVars, secVars, fallbackVars, result, audioFile>>

\* line 371: the call has returned; back to the prompt with nothing kept
MainLoopBack ==
    /\ pc = "done"
    /\ pc' = "prompt"
    /\ request' = "none"
    /\ input' = ""
    /\ ResetRequest

----------------------------------------------------------------------------
(* The environment: clock, primary backend, secondary backend *)

Tick ==
    /\ pc \in {"spawn", "loop_top", "readline"}
    /\ clock < MaxClock
    /\ clock' = clock + 1
    /\ UNCHANGED <<pc, input, request, primaryVars, secVars, fallbackVars,
                   result, audioFile>>

envPrimaryUnchanged ==
    UNCHANGED <<pc, input, request, clock, nread, output_lines, rate_limited,
                timedOut, returncode, primaryStarts, secVars, fallbackVars, result>>

ProcEmit ==
    /\ procSt = "running"
    /\ Len(emitted) < MaxLines
    /\ \E l \in Lines : emitted' = Append(emitted, l)
    /\ UNCHANGED <<procSt, procCode, audioFile>>
    /\ envPrimaryUnchanged

ProcExit ==
    /\ procSt = "running"
    /\ \E c \in ExitCodes :
        /\ procCode' = Some(c)
        /\ audioFile' = (c = 0)
    /\ procSt' = "exited"
    /\ UNCHANGED emitted
    /\ envPrimaryUnchanged

\* the backend blocks for good: it stays alive, writes nothing more, never exits
ProcHang ==
    /\ procSt = "running"
    /\ procSt' = "hung"
    /\ UNCHANGED <<procCode, emitted, audioFile>>
    /\ envPrimaryUnchanged

\* a killed process dies
ProcDie ==
    /\ procSt = "dying"
    /\ procSt' = "exited"
    /\ procCode' = Some(KilledCode)
    /\ UNCHANGED <<emitted, audioFile>>
    /\ envPrimaryUnchanged

envSecUnchanged ==
    UNCHANGED <<pc, input, request, clock, primaryVars, secKind, secStarts,
                fallbackVars, result>>

SecExit ==
    /\ secSt = "running"
    /\ secSt' = "exited"
    /\ \E c \in ExitCodes :
        /\ secCode' = Some(c)
        /\ audioFile' = (audioFile \/ (secKind \in {"audio", "ds"} /\ c = 0))
    /\ IF secKind = "md"
       THEN secOut' \in (IF request = "direct" THEN RichPayloads ELSE Payloads)
       ELSE secOut' = secOut
    /\ envSecUnchanged

SecHang ==
    /\ secSt = "running"
    /\ secSt' = "hung"
    /\ UNCHANGED <<secCode, secOut, audioFile>>
    /\ envSecUnchanged

----------------------------------------------------------------------------
(* download_from_spotify_url, lines 92-177 *)

\* lines 115-125: Popen starts the backend, or raises (caught at line 174)
Popen ==
    /\ pc = "spawn"
    /\ \/ /\ procSt' = "running"
          /\ primaryStarts' = primaryStarts + 1
          /\ pc' = "loop_top"
          /\ UNCHANGED result
       \/ /\ Return(ResFalse)
          /\ UNCHANGED <<procSt, primaryStarts>>
    /\ UNCHANGED <<input, request, clock, procCode, emitted, nread, output_lines,
                   rate_limited, timedOut, returncode, secVars, fallbackVars,
                   audioFile>>

\* lines 129-133: the timeout check at the top of the loop
CheckTimeout ==
    /\ pc = "loop_top"
    /\ IF clock > timeout
       THEN /\ procSt' = Kill(procSt)
            /\ timedOut' = TRUE
            /\ pc' = "wait"
       ELSE /\ pc' = "readline"
            /\ UNCHANGED <<procSt, timedOut>>
    /\ UNCHANGED <<input, request, clock, procCode, emitted, nread, output_lines,
                   rate_limited, returncode, primaryStarts, secVars, fallbackVars,
                   result, audioFile>>

\* readline() has something to return: a written line, or end of file
ReadlineReady == nread < Len(emitted) \/ procSt = "exited"

\* lines 135-148: readline() blocks until a line or end of file; a line is
\* stripped, kept and tested; end of file with the process gone ends the loop
Readline ==
    /\ pc = "readline"
    /\ ReadlineReady
    /\ IF nread < Len(emitted)
       THEN LET line == Strip(emitted[nread + 1])
            IN /\ nread' = nread + 1
               /\ output_lines' = Append(output_lines, line)
               /\ IF IsRateLimit(line)
                  THEN /\ rate_limited' = TRUE
                       /\ procSt' = Kill(procSt)
                       /\ pc' = "wait"
                  ELSE /\ pc' = "loop_top"
                       /\ UNCHANGED <<rate_limited, procSt>>
       ELSE /\ pc' = "wait"
            /\ UNCHANGED <<nread, output_lines, rate_limited, procSt>>
    /\ UNCHANGED <<input, request, clock, procCode, emitted, timedOut, returncode,
                   primaryStarts, secVars, fallbackVars, result, audioFile>>

ReadlineRaises_fallsBack ==
    /\ pc = "readline"
    /\ pc' = "scrape"
    /\ UNCHANGED <<input, request, clock, primaryVars, secVars, fallbackVars,
                   result, audioFile>>

\* lines 174-177: reading the backend's output raises; the handler returns
\* False and does nothing to the process
ReadlineRaises ==
    /\ pc = "readline"
    /\ Return(ResFalse)
    /\ UNCHANGED <<input, request, clock, primaryVars, secVars, fallbackVars,
                   audioFile>>

WaitReady_nowait == TRUE

\* process.wait() returns only once the process has exited
WaitReady == procSt = "exited"

\* line 150: returncode = process.poll() or process.wait()
Wait ==
    /\ pc = "wait"
    /\ WaitReady
    /\ returncode' = procCode
    /\ pc' = "evaluate"
    /\ UNCHANGED <<input, request, clock, procSt, procCode, emitted, nread,
                   output_lines, rate_limited, timedOut, primaryStarts, secVars,
                   fallbackVars, result, audioFile>>

UseFallback_unlessExitZero(rl, rc) == rl /\ rc # Some(0)

\* line 154: if rate_limited
UseFallback(rl, rc) == rl

ExitResult_notKilled(rc) == IF rc.v >= 0 THEN ResTrue ELSE ResFalse

\* lines 166-172: True for exit status 0, False for any other
ExitResult(rc) == IF rc = Some(0) THEN ResTrue ELSE ResFalse

\* lines 154, 164-172: without a rate limit the exit status decides
Evaluate ==
    /\ pc = "evaluate"
    /\ IF UseFallback(rate_limited, returncode)
       THEN pc' = "scrape" /\ UNCHANGED result
       ELSE Return(ExitResult(returncode))
    /\ UNCHANGED <<input, request, clock, primaryVars, secVars, fallbackVars,
                   audioFile>>

\* lines 157-162: the page-title scrape, then the routing on its result
Scrape ==
    /\ pc = "scrape"
    /\ \E f \in Fetches :
        /\ track_name' = ExtractTitle(f)
        /\ IF Truthy(track_name')
           THEN /\ query' = FallbackQuery(track_name')
                /\ secondaryEntries' = secondaryEntries + 1
                /\ pc' = "md_spawn"
                /\ UNCHANGED result
           ELSE /\ Return(ResFalse)
                /\ UNCHANGED <<query, secondaryEntries>>
    /\ UNCHANGED <<input, request, clock, primaryVars, secVars, metadata, best,
                   coverFile, audioFile>>

----------------------------------------------------------------------------
(* download_song_with_metadata, lines 251-339 *)

\* line 275: subprocess.run starts the metadata-only call, or raises (line 337)
MdSpawn ==
    /\ pc = "md_spawn"
    /\ \/ /\ secSt' = "running"
          /\ secKind' = "md"
          /\ secCode' = None
          /\ secStarts' = secStarts + 1
          /\ pc' = "md_wait"
          /\ UNCHANGED result
       \/ /\ Return(ResNone)
          /\ UNCHANGED <<secSt, secKind, secCode, secStarts>>
    /\ UNCHANGED <<input, request, clock, primaryVars, secOut, fallbackVars,
                   audioFile>>

MdNext_retry(ok) == IF ok THEN "audio_wait" ELSE "spawn"

\* where the metadata-only call leads: the audio download, or the return of None
MdNext(ok) == IF ok THEN "audio_wait" ELSE "done"

\* lines 275-318: the metadata-only call has exited; a nonzero status or an
\* unparseable payload returns None, otherwise the audio download is started
MdReturn ==
    /\ pc = "md_wait"
    /\ secSt = "exited"
    /\ LET ok == secCode = Some(0) /\ Parseable(secOut)
       IN /\ pc' = MdNext(ok)
          /\ IF ok
             THEN /\ metadata' = Some(BuildMetadata(secOut))
                  /\ best' = IF secOut.thumbnails # <<>>
                             THEN Some(Best(secOut.thumbnails)) ELSE None
                  /\ secSt' = "running"
                  /\ secKind' = "audio"
                  /\ secCode' = None
                  /\ secStarts' = secStarts + 1
                  /\ UNCHANGED result
             ELSE /\ result' = ResNone
                  /\ UNCHANGED <<metadata, best, secSt, secKind, secCode, secStarts>>
    /\ UNCHANGED <<input, request, clock, primaryVars, secOut, track_name, query,
                   secondaryEntries, coverFile, audioFile>>

\* lines 329-332: file_path is set and the dict returned
Finish(md) == Return(ResMetadata([md EXCEPT !.file_path = OutputPath(md)]))

WantsCover_onlyAfterAudio(md, code) == md.thumbnail_url # "" /\ code = Some(0)

\* line 321: if metadata["thumbnail_url"]; the audio status plays no part
WantsCover(md, code) == md.thumbnail_url # ""

\* lines 318-321: the audio download has exited (its status is not read); a
\* non-empty thumbnail URL leads to the cover fetch
AudioReturn ==
    /\ pc = "audio_wait"
    /\ secSt = "exited"
    /\ IF WantsCover(metadata.v, secCode)
       THEN pc' = "cover" /\ UNCHANGED result
       ELSE Finish(metadata.v)
    /\ UNCHANGED <<input, request, clock, primaryVars, secVars, fallbackVars,
                   audioFile>>

\* lines 322-332: urlretrieve saves the cover
CoverOk ==
    /\ pc = "cover"
    /\ coverFile' = TRUE
    /\ metadata' = Some([metadata.v EXCEPT !.cover_path = CoverPath(metadata.v)])
    /\ Finish(metadata'.v)
    /\ UNCHANGED <<input, request, clock, primaryVars, secVars, track_name, query, best,
                   secondaryEntries, audioFile>>

CoverFails_returnsNone ==
    /\ pc = "cover"
    /\ Return(ResNone)
    /\ UNCHANGED <<input, request, clock, primaryVars, secVars, fallbackVars,
                   audioFile>>

\* lines 326-332: urlretrieve raises; the dict is returned without cover_path
CoverFails ==
    /\ pc = "cover"
    /\ Finish(metadata.v)
    /\ UNCHANGED <<input, request, clock, primaryVars, secVars, fallbackVars,
                   audioFile>>

\* line 323: urlretrieve has no timeout; a server that never answers blocks it
CoverHangs ==
    /\ pc = "cover"
    /\ pc' = "cover_blocked"
    /\ UNCHANGED <<input, request, clock, primaryVars, secVars, fallbackVars,
                   result, audioFile>>

----------------------------------------------------------------------------
(* download_song, lines 51-90 *)

\* line 81: subprocess.run starts the search download, or raises (line 88)
DsSpawn ==
    /\ pc = "ds_spawn"
    /\ \/ /\ secSt' = "running"
          /\ secKind' = "ds"
          /\ secCode' = None
          /\ secStarts' = secStarts + 1
          /\ pc' = "ds_wait"
          /\ UNCHANGED result
       \/ /\ Return(ResFalse)
          /\ UNCHANGED <<secSt, secKind, secCode, secStarts>>
    /\ UNCHANGED <<input, request, clock, primaryVars, secOut, fallbackVars,
                   audioFile>>

\* lines 82-87: the exit status decides
DsReturn ==
    /\ pc = "ds_wait"
    /\ secSt = "exited"
    /\ IF secCode = Some(0) THEN Return(ResTrue) ELSE Return(ResFalse)
    /\ UNCHANGED <<input, request, clock, primaryVars, secVars, fallbackVars,
                   audioFile>>

----------------------------------------------------------------------------
(* The specification *)

\* the steps of the program's single thread
Program ==
    \/ MainInput
    \/ MainLoopBack
    \/ Popen
    \/ CheckTimeout
    \/ Readline
    \/ ReadlineRaises
    \/ Wait
    \/ Evaluate
    \/ Scrape
    \/ MdSpawn
    \/ MdReturn
    \/ AudioReturn
    \/ CoverOk
    \/ CoverFails
    \/ CoverHangs
    \/ DsSpawn
    \/ DsReturn

\* the steps of the backends
Backends ==
    \/ ProcEmit
    \/ ProcExit
    \/ ProcHang
    \/ ProcDie
    \/ SecExit
    \/ SecHang

Next == Program \/ Backends \/ Tick

Spec == Init /\ [][Next]_vars

----------------------------------------------------------------------------
(* download_song_with_metadata called by itself, lines 251-339 *)

\* the state at the entry of the function, for a query
MetaInit ==
    /\ pc = "md_spawn"
    /\ input = ""
    /\ request = "direct"
    /\ clock = 0
    /\ procSt = "none"
    /\ procCode = None
    /\ emitted = <<>>
    /\ nread = 0
    /\ output_lines = <<>>
    /\ rate_limited = FALSE
    /\ timedOut = FALSE
    /\ returncode = None
    /\ track_name = None
    /\ query = Some(<<"Song">>)
    /\ secSt = "none"
    /\ secCode = None
    /\ secKind = "none"
    /\ secOut = NoPayload
    /\ metadata = None
    /\ best = None
    /\ result = ResUnset
    /\ audioFile = FALSE
    /\ coverFile = FALSE
    /\ primaryStarts = 0
    /\ secondaryEntries = 1
    /\ secStarts = 0

MetaNext ==
    \/ MdSpawn
    \/ MdReturn
    \/ AudioReturn
    \/ CoverOk
    \/ CoverFails
    \/ CoverHangs
    \/ SecExit
    \/ SecHang

MetaSpec == MetaInit /\ [][MetaNext]_vars

----------------------------------------------------------------------------
(* Properties *)

InLoop == pc \in {"loop_top", "readline"}
InFallback == pc \in {"scrape", "md_spawn", "md_wait", "audio_wait", "cover",
                      "cover_blocked"}
Handling == pc \notin {"prompt", "done", "exit"}

\* the supervisor's ordinary steps inside the loop: the check and the read
SupervisorStep == CheckTimeout \/ Readline

\* C1: once elapsed time exceeds the timeout with the backend alive and
\* silent for good, the supervisor is not held in the line read: it can take
\* its next step, which leads to the timeout check and the kill.
C1_TimeoutCheckNeverStarved ==
    (InLoop /\ clock > timeout /\ procSt = "hung") => ENABLED SupervisorStep

\* C2: when download_from_spotify_url has returned, the process it spawned
\* is not running.
C2_NoProcessLeftRunning ==
    (pc = "done" /\ request = "url") => ~IsAlive(procSt)

\* C3: a truthy result means the audio-fetch run of the request exited with
\* code 0 and left an audio file, and a returned record has a file path.
C3_SuccessMeansAudioProduced ==
    (pc = "done" /\ ResTruthy(result)) =>
        /\ audioFile
        /\ IF result.kind = "metadata"
           THEN secKind = "audio" /\ secCode = Some(0) /\ result.md.file_path # <<>>
           ELSE IF request = "url" THEN returncode = Some(0)
           ELSE secCode = Some(0)

\* every step of the program except the raising of an exception
NormalStep ==
    \/ MainInput
    \/ MainLoopBack
    \/ Popen
    \/ SupervisorStep
    \/ Wait
    \/ Evaluate
    \/ Scrape
    \/ MdSpawn
    \/ MdReturn
    \/ AudioReturn
    \/ CoverOk
    \/ CoverFails
    \/ CoverHangs
    \/ DsSpawn
    \/ DsReturn

\* C4: while a request is handled, either the program can take a step or a
\* backend it waits for can still act: no step waits for something that will
\* never come.
C4_NeverBlockedForever == Handling => ENABLED (NormalStep \/ Backends)

\* C5: a primary run that ended by the timeout branch, or by a nonzero exit,
\* with no rate-limit line seen, starts no secondary process and fails.
C5_NoRetryWithoutRateLimit ==
    (/\ pc = "done"
     /\ request = "url"
     /\ ~rate_limited
     /\ (timedOut \/ (returncode.some /\ returncode.v # 0)))
    => (secStarts = 0 /\ secondaryEntries = 0 /\ result = ResFalse)

\* the phases of the request state machine, in their order
PhaseRank(p) ==
    CASE p = "prompt" -> 0
      [] p \in {"spawn", "ds_spawn"} -> 1
      [] p \in {"loop_top", "readline", "wait", "ds_wait"} -> 2
      [] p \in {"evaluate", "scrape"} -> 3
      [] p \in {"md_spawn", "md_wait", "audio_wait", "cover", "cover_blocked"} -> 4
      [] OTHER -> 5

C6_Step ==
    /\ primaryStarts' <= 1
    /\ secondaryEntries' <= 1
    /\ secStarts' <= 2
    /\ (pc' = "md_spawn" => pc \in {"scrape", "md_spawn"})
    /\ (pc \notin {"done", "exit"} => PhaseRank(pc') >= PhaseRank(pc))
    /\ (PhaseRank(pc) = 4 => PhaseRank(pc') \in {4, 5})
    /\ (pc = "done" => pc' \in {"done", "prompt"})

\* C6: per request the primary backend is started at most once and the
\* secondary pipeline entered at most once; the phases are passed in their
\* order without return, and the secondary pipeline leads only to DONE.
C6_OneFallbackInOrder == [][C6_Step]_vars

\* C6 witness: a fallback whose metadata call failed has ended the request.
C6_Witness ==
    /\ pc = "done"
    /\ primaryStarts = 1
    /\ secondaryEntries = 1
    /\ result = ResNone

\* C7: a request whose primary run was ended by the timeout branch fails.
C7_TimeoutMeansFailure == (pc = "done" /\ timedOut) => result = ResFalse

\* the scrape of a rate-limited request has been made
Scraped ==
    /\ rate_limited
    /\ pc \in {"md_spawn", "md_wait", "audio_wait", "cover", "cover_blocked", "done"}

\* what download_song_with_metadata returns, read off its own state
SecondaryOutcome ==
    IF secKind = "audio" /\ secSt = "exited" /\ metadata.some
    THEN ResMetadata([metadata.v EXCEPT !.file_path = OutputPath(metadata.v)])
    ELSE ResNone

C8_NoTitleReached ==
    /\ pc = "done"
    /\ rate_limited
    /\ track_name = Some(<<>>)
    /\ result = ResFalse

\* C9: once a rate-limit line was detected, the primary process has exited
\* and its status was read before the scrape, the secondary and the return;
\* a secondary process never runs beside a live primary process.
C9_PrimaryDeadBeforeFallback ==
    /\ (rate_limited /\ (InFallback \/ pc \in {"evaluate", "done"})) =>
           (procSt = "exited" /\ returncode.some /\ returncode = procCode)
    /\ (secSt \in {"running", "hung"} => ~IsAlive(procSt))

\* C9 witness: the secondary runs after the killed primary was reaped.
C9_Witness ==
    /\ rate_limited
    /\ pc = "md_wait"
    /\ secSt = "running"
    /\ procSt = "exited"
    /\ returncode = Some(KilledCode)

\* the lines of the output alphabet that hold both words, in any case
HoldsBothWords(l) == l \in {L_rl, L_gen}

\* C10 as stated: the captured lines are the emitted lines themselves, up to
\* and including the first match.
C10_CapturedAreEmitted ==
    rate_limited => output_lines = SubSeq(emitted, 1, nread)

\* C10: every line read is tested in arrival order and kept stripped of its
\* surrounding whitespace; the first line holding both words sets the flag,
\* kills the process and is the last line read.
C10_CapturedAreStrippedEmitted ==
    /\ nread <= Len(emitted)
    /\ Len(output_lines) = nread
    /\ \A i \in 1..nread : output_lines[i] = Strip(emitted[i])
    /\ \A i \in 1..(nread - 1) : ~HoldsBothWords(emitted[i])
    /\ rate_limited <=> (nread > 0 /\ HoldsBothWords(emitted[nread]))
    /\ rate_limited => (~InLoop /\ procSt \in {"dying", "exited"})

\* C10 witness: the second line read is the first match; it was kept
\* stripped and a later line was left unread.
C10_Witness ==
    /\ rate_limited
    /\ nread = 2
    /\ emitted[1] = L_rate
    /\ emitted[2] = L_rl
    /\ output_lines = <<L_rate, <<"Rate", " ", "limit">> >>

----------------------------------------------------------------------------
(* Properties of the search path and of download_song_with_metadata *)

\* the --output given to the audio download command that was issued
AudioCommandOutput ==
    IF secKind = "ds" THEN DsTemplate ELSE OutputTemplate(metadata.v)

\* C11: in a free-text request of the prompt loop, an audio download command
\* is issued only after the metadata-only call gave the metadata, and its
\* destination is the sanitized "artist - title" of that metadata.
C11_MetadataBeforeAudio ==
    (request = "text" /\ secKind \in {"audio", "ds"}) =>
        (metadata.some /\ AudioCommandOutput = OutputTemplate(metadata.v))

\* the metadata-only call has exited and gave no usable record
BadMetadataCall ==
    /\ pc = "md_wait"
    /\ secSt = "exited"
    /\ \/ secCode # Some(0)
       \/ secOut.json # "object"
       \/ ~secOut.has_url

C12_Step ==
    BadMetadataCall =>
        /\ pc' = "done"
        /\ result' = ResNone
        /\ secKind' = "md"
        /\ secSt' = "exited"
        /\ secStarts' = secStarts
        /\ ~audioFile'
        /\ ~coverFile'

\* C12: after a metadata-only call that exited nonzero or whose output is
\* invalid JSON, no object, or lacks the source URL, the next step returns
\* None; no audio download is started and no cover is fetched.
C12_BadMetadataReturnsNone == [][C12_Step]_vars

\* C12 witness: a record without source URL, from a call that exited 0, has
\* ended the function with None and one process started.
C12_Witness ==
    /\ pc = "done"
    /\ secKind = "md"
    /\ secCode = Some(0)
    /\ secOut.json = "object"
    /\ ~secOut.has_url
    /\ result = ResNone
    /\ secStarts = 1

\* width x height of a candidate, a missing one counting as 0
CandidateArea(c) ==
    (IF c.width.some THEN c.width.v ELSE 0) * (IF c.height.some THEN c.height.v ELSE 0)

\* i is the first index of maximal area in s
FirstOfMaximalArea(s, i) ==
    /\ \A j \in 1..Len(s) : CandidateArea(s[j]) <= CandidateArea(s[i])
    /\ \A j \in 1..(i - 1) : CandidateArea(s[j]) < CandidateArea(s[i])

\* C13: for a non-empty candidate list the selected thumbnail is the
\* candidate of maximal width x height, the first of them in input order.
C13_BestIsFirstOfMaximalArea ==
    metadata.some =>
        IF secOut.thumbnails = <<>> THEN best = None
        ELSE /\ best.some
             /\ \E i \in 1..Len(secOut.thumbnails) :
                    /\ FirstOfMaximalArea(secOut.thumbnails, i)
                    /\ best.v = secOut.thumbnails[i]

\* C13 witness: two different candidates of the same maximal area, the first
\* selected.
C13_Witness ==
    /\ best.some
    /\ Len(secOut.thumbnails) = 2
    /\ CandidateArea(secOut.thumbnails[1]) = 2
    /\ CandidateArea(secOut.thumbnails[2]) = 2
    /\ secOut.thumbnails[1].url = Some("http://a")
    /\ secOut.thumbnails[2].url = Some("http://b")
    /\ best.v = secOut.thumbnails[1]
    /\ metadata.v.thumbnail_url = "http://a"

\* C14: a returned metadata record with a non-empty candidate list has a
\* non-empty selected thumbnail URL.
C14_ThumbnailUrlNonEmpty ==
    (result.kind = "metadata" /\ result.md.thumbnails # <<>>) =>
        result.md.thumbnail_url # ""

IllegalChars == {"<", ">", ":", "\"", "/", "\\", "|", "?", "*"}

\* C15: the safe filename has the length of "artist - title", an underscore
\* wherever that has an illegal character and the same character elsewhere;
\* sanitizing it again changes nothing.
C15_SanitizeReplacesInPlace ==
    metadata.some =>
        LET raw == metadata.v.artist \o <<" ", "-", " ">> \o metadata.v.title
            safe == SafeFilename(metadata.v)
        IN /\ Len(safe) = Len(raw)
           /\ \A i \in 1..Len(raw) :
                  safe[i] = IF raw[i] \in IllegalChars THEN "_" ELSE raw[i]
           /\ Sanitize(safe) = safe
           /\ (result.kind = "metadata" =>
                  result.md.file_path = <<"downloads", "/">> \o safe \o <<".mp3">>)

\* C15 witness: "A/D - ?*" was saved as "A_D - __".
C15_Witness ==
    /\ result.kind = "metadata"
    /\ result.md.artist = <<"A", "/", "D">>
    /\ result.md.title = <<"?", "*">>
    /\ result.md.file_path =
           <<"downloads", "/", "A", "_", "D", " ", "-", " ", "_", "_", ".mp3">>

\* C16: once the audio download was started the function returns the record
\* with file_path, whatever the cover fetch did; cover_path is in it exactly
\* when the cover fetch succeeded.
C16_CoverFailureNotFatal ==
    (pc = "done" /\ metadata.some) =>
        /\ result.kind = "metadata"
        /\ result.md.file_path = OutputPath(metadata.v)
        /\ (result.md.cover_path # <<>>) <=> coverFile

\* C16 witness: a record with a thumbnail URL was returned with file_path and
\* without cover_path, the cover fetch having failed.
C16_Witness ==
    /\ pc = "done"
    /\ result.kind = "metadata"
    /\ result.md.thumbnail_url # ""
    /\ ~coverFile
    /\ result.md.cover_path = <<>>
    /\ result.md.file_path # <<>>

\* the primary run ended at end of output with the process gone
NaturalExit ==
    /\ pc = "done"
    /\ request = "url"
    /\ returncode.some
    /\ ~timedOut
    /\ ~rate_limited

\* C17: after a natural exit the result is True for exit code 0 and False
\* for any other exit code.
C17_NaturalExitByCode ==
    NaturalExit =>
        /\ procSt = "exited"
        /\ returncode = procCode
        /\ result = (IF returncode.v = 0 THEN ResTrue ELSE ResFalse)

\* C17 witness: a backend that wrote a line and exited with code 1.
C17_Witness ==
    /\ NaturalExit
    /\ returncode = Some(1)
    /\ nread = 1
    /\ result = ResFalse

\* C18: once a rate-limit line was read the exit status of the primary
\* decides nothing: the supervisor goes to the fallback, and the result is
\* False without a title and the secondary's return value with one.
C18_RateLimitBeforeExitStatus ==
    (rate_limited /\ returncode.some /\ pc # "evaluate") =>
        /\ InFallback \/ pc = "done"
        /\ pc = "done" =>
               /\ result # ResTrue
               /\ result = (IF Truthy(track_name) THEN SecondaryOutcome ELSE ResFalse)

\* C18 witness: the primary had exited with code 0 when the rate-limit line
\* was read, and the request failed for want of a title.
C18_Witness ==
    /\ pc = "done"
    /\ rate_limited
    /\ returncode = Some(0)
    /\ ~Truthy(track_name)
    /\ result = ResFalse

\* download_from_spotify_url was left before line 150
LeftByException ==
    /\ request = "url"
    /\ ~returncode.some
    /\ pc \notin {"spawn", "loop_top", "readline", "wait"}

\* C19: an exception of the spawn or of the supervision makes the function
\* return False to main, with no scrape and no secondary process.
C19_ExceptionReturnsFalse ==
    LeftByException =>
        /\ pc = "done"
        /\ result = ResFalse
        /\ track_name = None
        /\ secondaryEntries = 0
        /\ secStarts = 0

\* C19 witness: the read of the backend's output raised.
C19_Witness ==
    /\ LeftByException
    /\ primaryStarts = 1
    /\ result = ResFalse

\* C19: the spawn itself raised.
C19_SpawnFailureReached ==
    /\ LeftByException
    /\ primaryStarts = 0
    /\ result = ResFalse

\* the steps of download_song_with_metadata, in their order
MetaRank(p) ==
    CASE p = "md_spawn" -> 0
      [] p = "md_wait" -> 1
      [] p = "audio_wait" -> 2
      [] p \in {"cover", "cover_blocked"} -> 3
      [] OTHER -> 4

C20_Step ==
    /\ MetaRank(pc') >= MetaRank(pc)
    /\ (MetaRank(pc') = 2 /\ pc' # pc) => pc = "md_wait"
    /\ (MetaRank(pc') = 3 /\ MetaRank(pc) # 3) => pc = "audio_wait"
    /\ (pc = "audio_wait" /\ pc' # pc) =>
           /\ (pc' = "cover") <=> (metadata.v.thumbnail_url # "")
           /\ pc' \in {"cover", "done"}
    /\ secStarts' <= 2
    /\ coverFile' => (pc' = "done" /\ metadata.v.thumbnail_url # "")

\* C20: the metadata call, the audio download and the cover fetch run in
\* this order, each at most once; the cover fetch follows the audio download
\* exactly when the thumbnail URL is non-empty, whatever the audio's status.
C20_StepsInOrder == [][C20_Step]_vars

\* C20 witness: a cover was saved though the audio download exited with 1.
C20_Witness ==
    /\ pc = "done"
    /\ secKind = "audio"
    /\ secCode = Some(1)
    /\ ~audioFile
    /\ coverFile

====
